---- MODULE Spec2Model ----
(***************************************************************************)
(* Model of the AI-powered web analyzer gateway: the /agent-task           *)
(* dispatcher and the three /api endpoints of src/main.py, the three task  *)
(* handlers of src/mcp/analyzers.py, the request models of                 *)
(* src/mcp/models.py and the four leaf clients of src/mcp/services.py.     *)
(*                                                                         *)
(* A Python str is a sequence of one-character strings, so that lower(),   *)
(* strip(), startswith(), `in` and len() are computed as Python computes   *)
(* them.  A JSON value is a record [kind, val] with kind "absent" (the key *)
(* is missing), "null" (None) or "str".  One request is in flight at a     *)
(* time: the code shares no mutable state between requests.  A handler is  *)
(* cut at its awaits: the action that ends at `await leaf(...)` records    *)
(* the call, the next action takes what the leaf returns and runs the      *)
(* handler on to its next await or to its end.                             *)
(***************************************************************************)
EXTENDS Naturals, Sequences, FiniteSets

VARIABLES
    pc,          \* "idle", "fetch", "llm", "search", "generate" (suspended at that await), "done"
    entry,       \* the function the request entered through
    payload,     \* the request body as received: [url, prompt, query]
    request,     \* the request object handed to the task handler
    handler,     \* the task handler whose analyze() was invoked, or "none"
    youtube_api, \* the video-search leaf MusicSearcher was constructed with
    calls,       \* the leaf clients invoked for this request, in order
    leafFailed,  \* some leaf call of this request failed inside the leaf
    leaf,        \* what the leaves returned: [code, analysis, results, image_url]
    raisedAt,    \* the raise statement that ended the request, or "none"
    response     \* what the caller gets: [status, detail, body]

vars == <<pc, entry, payload, request, handler, youtube_api, calls, leafFailed, leaf, raisedAt, response>>

-----------------------------------------------------------------------------
(* Python str operations *)

Whitespace == {" ", "\t", "\n"}

UpperCase == <<"A","B","C","D","E","F","G","H","I","J","K","L","M","N","O","P","Q","R","S","T","U","V","W","X","Y","Z">>

LowerCase == <<"a","b","c","d","e","f","g","h","i","j","k","l","m","n","o","p","q","r","s","t","u","v","w","x","y","z">>

LowerChar(c) == IF \E i \in 1..Len(UpperCase) : UpperCase[i] = c THEN LowerCase[CHOOSE i \in 1..Len(UpperCase) : UpperCase[i] = c] ELSE c

Lower(s) == [i \in 1..Len(s) |-> LowerChar(s[i])]

StartsWith(s, p) == Len(s) >= Len(p) /\ SubSeq(s, 1, Len(p)) = p

Contains(s, sub) == \E i \in 0..(Len(s) - Len(sub)) : SubSeq(s, i + 1, i + Len(sub)) = sub

NonWhitespace(s) == {i \in 1..Len(s) : s[i] \notin Whitespace}

Strip(s) == LET kept == NonWhitespace(s) IN IF kept = {} THEN <<>> ELSE SubSeq(s, CHOOSE i \in kept : \A j \in kept : i <= j, CHOOSE i \in kept : \A j \in kept : i >= j)

-----------------------------------------------------------------------------
(* JSON / Python values *)

Absent == [kind |-> "absent", val |-> <<>>]

Null == [kind |-> "null", val |-> <<>>]

Str(s) == [kind |-> "str", val |-> s]

\* Python truthiness of a value: None and "" are falsy
Truthy(v) == v.kind = "str" /\ v.val # <<>>

-----------------------------------------------------------------------------
(* String literals of the source *)

HttpPrefix == <<"h", "t", "t", "p", ":", "/", "/">>

HttpsPrefix == <<"h", "t", "t", "p", "s", ":", "/", "/">>

ErrorSentinel == <<"E", "r", "r", "o", "r", ":">>

MusicKeywords == {<<"f", "i", "n", "d", " ", "m", "u", "s", "i", "c">>, <<"p", "l", "a", "y", " ", "m", "u", "s", "i", "c">>, <<"s", "e", "a", "r", "c", "h", " ", "s", "o", "n", "g">>}

ImageKeywords == {<<"g", "e", "n", "e", "r", "a", "t", "e", " ", "i", "m", "a", "g", "e">>, <<"c", "r", "e", "a", "t", "e", " ", "i", "m", "a", "g", "e">>}

MaxPromptLength == 1000

MsgInvalidUrl == <<"I", "n", "v", "a", "l", "i", "d", " ", "U", "R", "L", ".", " ", "M", "u", "s", "t", " ", "s", "t", "a", "r", "t", " ", "w", "i", "t", "h", " ", "h", "t", "t", "p", ":", "/", "/", " ", "o", "r", " ", "h", "t", "t", "p", "s", ":", "/", "/">>

MsgEmptyPrompt == <<"E", "m", "p", "t", "y", " ", "p", "r", "o", "m", "p", "t", " ", "p", "r", "o", "v", "i", "d", "e", "d">>

MsgEmptyQuery == <<"E", "m", "p", "t", "y", " ", "s", "e", "a", "r", "c", "h", " ", "q", "u", "e", "r", "y", " ", "p", "r", "o", "v", "i", "d", "e", "d">>

MsgPromptTooLong == <<"P", "r", "o", "m", "p", "t", " ", "t", "o", "o", " ", "l", "o", "n", "g", ".", " ", "M", "a", "x", "i", "m", "u", "m", " ", "l", "e", "n", "g", "t", "h", " ", "i", "s", " ", "1", "0", "0", "0", " ", "c", "h", "a", "r", "a", "c", "t", "e", "r", "s">>

MsgNoImageUrl == <<"N", "o", " ", "i", "m", "a", "g", "e", " ", "U", "R", "L", " ", "r", "e", "t", "u", "r", "n", "e", "d">>

MsgInvalidImageUrl == <<"I", "n", "v", "a", "l", "i", "d", " ", "i", "m", "a", "g", "e", " ", "U", "R", "L", " ", "r", "e", "t", "u", "r", "n", "e", "d">>

MsgInvalidRequestType == <<"P", "l", "e", "a", "s", "e", " ", "s", "p", "e", "c", "i", "f", "y", " ", "a", " ", "v", "a", "l", "i", "d", " ", "r", "e", "q", "u", "e", "s", "t", " ", "t", "y", "p", "e", " ", "(", "w", "e", "b", "s", "i", "t", "e", " ", "a", "n", "a", "l", "y", "s", "i", "s", ",", " ", "m", "u", "s", "i", "c", " ", "s", "e", "a", "r", "c", "h", ",", " ", "o", "r", " ", "i", "m", "a", "g", "e", " ", "g", "e", "n", "e", "r", "a", "t", "i", "o", "n", ")">>

MsgInvalidRequestFormat == <<"I", "n", "v", "a", "l", "i", "d", " ", "r", "e", "q", "u", "e", "s", "t", " ", "f", "o", "r", "m", "a", "t">>

PrefixAnalysisFailed == <<"A", "n", "a", "l", "y", "s", "i", "s", " ", "f", "a", "i", "l", "e", "d", ":", " ">>

PrefixMusicFailed == <<"M", "u", "s", "i", "c", " ", "s", "e", "a", "r", "c", "h", " ", "f", "a", "i", "l", "e", "d", ":", " ">>

PrefixMusicUnexpected == <<"M", "u", "s", "i", "c", " ", "s", "e", "a", "r", "c", "h", " ", "f", "a", "i", "l", "e", "d", " ", "d", "u", "e", " ", "t", "o", " ", "u", "n", "e", "x", "p", "e", "c", "t", "e", "d", " ", "e", "r", "r", "o", "r", ":", " ">>

PrefixImageFailed == <<"I", "m", "a", "g", "e", " ", "g", "e", "n", "e", "r", "a", "t", "i", "o", "n", " ", "f", "a", "i", "l", "e", "d", ":", " ">>

FetchErrorPrefix == <<"E", "r", "r", "o", "r", ":", " ", "C", "o", "u", "l", "d", " ", "n", "o", "t", " ", "f", "e", "t", "c", "h", " ", "w", "e", "b", "s", "i", "t", "e", ".", " ">>

GeminiErrorPrefix == <<"E", "r", "r", "o", "r", ":", " ", "A", "n", "a", "l", "y", "s", "i", "s", " ", "f", "a", "i", "l", "e", "d", " ", "-", " ">>

MsgEmptyGemini == <<"E", "m", "p", "t", "y", " ", "r", "e", "s", "p", "o", "n", "s", "e", " ", "f", "r", "o", "m", " ", "G", "e", "m", "i", "n", "i">>

DeepAIErrorPrefix == <<"E", "r", "r", "o", "r", ":", " ", "I", "m", "a", "g", "e", " ", "g", "e", "n", "e", "r", "a", "t", "i", "o", "n", " ", "f", "a", "i", "l", "e", "d", ".", " ">>

RequiredKeys == {"title", "video_url", "embed_url", "thumbnail", "channel", "description"}

-----------------------------------------------------------------------------
(* Bounds of the model and the inputs drawn within them *)

\* the longest list of items / raw records a video search returns
MaxItems == 3

\* the number of distinct videos a search can return
NumVideos == 2

Urls == {<<>>, <<"h", "t", "t", "p", ":", "/", "/", "x", ".", "c", "o">>, <<"h", "t", "t", "p", "s", ":", "/", "/", "x", ".", "c", "o">>, <<"f", "t", "p", ":", "/", "/", "x", ".", "c", "o">>, <<"x", ".", "c", "o">>, <<"h", "t", "t", "p", ":", "/", "/">>}

Prompts == {<<>>, <<" ">>, <<"h", "e", "l", "l", "o">>, <<"f", "i", "n", "d", " ", "m", "u", "s", "i", "c">>, <<"P", "l", "a", "y", " ", "M", "u", "s", "i", "c", " ", "n", "o", "w">>, <<"s", "e", "a", "r", "c", "h", " ", "s", "o", "n", "g">>, <<"p", "l", "e", "a", "s", "e", " ", "g", "e", "n", "e", "r", "a", "t", "e", " ", "i", "m", "a", "g", "e", " ", "o", "f", " ", "a", " ", "c", "a", "t">>, <<"C", "r", "e", "a", "t", "e", " ", "I", "m", "a", "g", "e">>, <<"f", "i", "n", "d", " ", "m", "u", "s", "i", "c", " ", "a", "n", "d", " ", "g", "e", "n", "e", "r", "a", "t", "e", " ", "i", "m", "a", "g", "e">>}

LongPrompt(n) == [i \in 1..n |-> "a"]

ImagePrompts == Prompts \cup {LongPrompt(MaxPromptLength), LongPrompt(MaxPromptLength + 1), [i \in 1..(MaxPromptLength + 1) |-> " "]}

UrlValues == {Absent, Null} \cup {Str(u) : u \in Urls}

PromptValues == {Absent, Null} \cup {Str(p) : p \in Prompts}

ImagePromptValues == {Absent, Null} \cup {Str(p) : p \in ImagePrompts}

\* the text of an exception raised inside a leaf
ExcText == <<"t", "i", "m", "e", "o", "u", "t">>

PageTexts == {<<>>, <<"B", "o", "o", "k", "s", " ", "f", "o", "r", " ", "s", "a", "l", "e">>, <<"E", "r", "r", "o", "r", ":", " ", "4", "0", "4">>}

LlmContents == {<<>>, <<"I", "t", " ", "s", "e", "l", "l", "s", " ", "b", "o", "o", "k", "s", ".">>, <<"E", "r", "r", "o", "r", ":", " ", "u", "n", "c", "l", "e", "a", "r">>}

OutputUrls == {Null, Str(<<>>), Str(<<"h", "t", "t", "p", ":", "/", "/", "i", "m", "g", ".", "c", "o", "/", "1">>), Str(<<"h", "t", "t", "p", "s", ":", "/", "/", "i", "m", "g", ".", "c", "o", "/", "1">>), Str(<<"f", "t", "p", ":", "/", "/", "i", "m", "g", ".", "c", "o", "/", "1">>), Str(<<"E", "r", "r", "o", "r", ":", " ", "q", "u", "o", "t", "a">>), Str(<<"i", "m", "g", ".", "c", "o", "/", "1">>)}

\* what happens inside a leaf call: the upstream answers (ok) or the call raises
FetchOutcomes == {[ok |-> TRUE, text |-> t] : t \in PageTexts} \cup {[ok |-> FALSE, text |-> ExcText]}

LlmOutcomes == {[ok |-> TRUE, text |-> t] : t \in LlmContents} \cup {[ok |-> FALSE, text |-> ExcText]}

ImageOutcomes == {[ok |-> TRUE, url |-> u] : u \in OutputUrls} \cup {[ok |-> FALSE, url |-> Null]}

SeqsUpTo(S, n) == UNION {[1..k -> S] : k \in 0..n}

\* an item of the search API's answer: complete when it carries id.videoId and every snippet field read
Items == [id : 1..NumVideos, complete : BOOLEAN]

SearchOutcomes == {[kind |-> "ok", items |-> s] : s \in SeqsUpTo(Items, MaxItems)} \cup {[kind |-> "error_body", items |-> <<>>], [kind |-> "exception", items |-> <<>>]}

\* a raw record of a video-search leaf: a dict from some keys to opaque strings
RawRecord(id, keys) == [k \in keys |-> <<k, id>>]

RawKeySets == {RequiredKeys, RequiredKeys \ {"channel"}, RequiredKeys \ {"title"}, RequiredKeys \cup {"views"}}

RawRecords == {RawRecord(id, keys) : id \in 1..NumVideos, keys \in RawKeySets}

\* what a video-search leaf satisfying the YouTubeAPI protocol can do: return a list, return None, raise
ProtocolSearchOutcomes == {[kind |-> "list", val |-> s] : s \in SeqsUpTo(RawRecords, MaxItems)} \cup {[kind |-> "null", val |-> <<>>], [kind |-> "raise", val |-> <<>>]}

-----------------------------------------------------------------------------
(* src/mcp/services.py: the leaf clients *)

\* WebCodeFetcher.fetch: the extracted text, or the sentinel on any exception
WebCodeFetcher_fetch(outcome) == IF outcome.ok THEN outcome.text ELSE FetchErrorPrefix \o outcome.text

\* content[:30000]
ContentLimit == 30000

Truncate(content) == SubSeq(content, 1, IF Len(content) < ContentLimit THEN Len(content) ELSE ContentLimit)

GeminiAnalyzer_analyze_NoEmptyCheck(outcome) == IF ~outcome.ok THEN GeminiErrorPrefix \o outcome.text ELSE outcome.text

\* GeminiAnalyzer.analyze: the content, or the sentinel on an exception or an empty response
GeminiAnalyzer_analyze(outcome) == IF ~outcome.ok THEN GeminiErrorPrefix \o outcome.text ELSE IF outcome.text = <<>> THEN GeminiErrorPrefix \o MsgEmptyGemini ELSE outcome.text

VideoRecord(item) == [title |-> <<"title", item.id>>, video_url |-> <<"watch", item.id>>, embed_url |-> <<"embed", item.id>>, thumbnail |-> <<"thumbnail", item.id>>, channel |-> <<"channel", item.id>>, description |-> <<"description", item.id>>]

\* YouTubeSearchAPI.search: the records of the items, or [] on any exception
\* (missing key, network error, an item lacking a field read)
YouTubeSearchAPI_search(outcome) == IF outcome.kind # "ok" THEN <<>> ELSE IF \E i \in 1..Len(outcome.items) : ~outcome.items[i].complete THEN <<>> ELSE [i \in 1..Len(outcome.items) |-> VideoRecord(outcome.items[i])]

\* the call failed inside the leaf: an exception, or an answer without items
SearchFailed(outcome) == outcome.kind # "ok"

\* DeepAIGenerator.generate: response['output_url'], or the sentinel on any exception
DeepAIGenerator_generate(outcome) == IF outcome.ok THEN outcome.url ELSE Str(DeepAIErrorPrefix \o ExcText)

-----------------------------------------------------------------------------
(* src/mcp/models.py: the request and response models *)

\* url: HttpUrl -- a string with scheme http or https and a host
HttpUrlValid(v) == v.kind = "str" /\ \E prefix \in {HttpPrefix, HttpsPrefix} : StartsWith(v.val, prefix) /\ Len(v.val) > Len(prefix)

WebsiteAnalysisRequestValid(body) == HttpUrlValid(body.url) /\ body.prompt.kind = "str"

MusicSearchRequestValid(body) == body.query.kind = "str"

ImageGenerationRequestValid(body) == body.prompt.kind = "str"

NoBody == [task |-> "", source_url |-> <<>>, user_prompt |-> <<>>, analysis_result |-> <<>>, query |-> <<>>, results |-> <<>>, prompt |-> <<>>, image_url |-> <<>>]

WebsiteAnalysisResponse(source_url, user_prompt, analysis_result) == [NoBody EXCEPT !.task = "website_analysis", !.source_url = source_url, !.user_prompt = user_prompt, !.analysis_result = analysis_result]

MusicSearchResponse_WrongTag(query, results) == [NoBody EXCEPT !.task = "website_analysis", !.query = query, !.results = results]

MusicSearchResponse(query, results) == [NoBody EXCEPT !.task = "music_search", !.query = query, !.results = results]

ImageGenerationResponse(prompt, image_url) == [NoBody EXCEPT !.task = "image_generation", !.prompt = prompt, !.image_url = image_url]

\* MusicVideo(title=result['title'], ...): the six fields, KeyError if one is missing
HasRequiredKeys(result) == RequiredKeys \subseteq DOMAIN result

MusicVideo(result) == [k \in RequiredKeys |-> result[k]]

-----------------------------------------------------------------------------
(* src/mcp/analyzers.py: the checks of the task handlers *)

WebsiteUrlInvalid_NoSchemeCheck(url) == ~Truthy(url)

\* not request.url or not str(request.url).startswith(('http://', 'https://'))
WebsiteUrlInvalid(url) == ~Truthy(url) \/ ~(StartsWith(url.val, HttpPrefix) \/ StartsWith(url.val, HttpsPrefix))

\* not request.prompt or len(request.prompt.strip()) == 0   (the same test for request.query)
Blank(v) == ~Truthy(v) \/ Len(Strip(v.val)) = 0

PromptTooLong_OffByOne(prompt) == Len(prompt.val) >= MaxPromptLength

\* len(request.prompt) > 1000
PromptTooLong(prompt) == Len(prompt.val) > MaxPromptLength

ImageUrlRejected_NoSchemeCheck(image_url) == ~Truthy(image_url) \/ StartsWith(image_url.val, ErrorSentinel)

\* not image_url or image_url.startswith("Error:"), then not image_url.startswith(('http://', 'https://'))
ImageUrlRejected(image_url) == ~Truthy(image_url) \/ StartsWith(image_url.val, ErrorSentinel) \/ ~(StartsWith(image_url.val, HttpPrefix) \/ StartsWith(image_url.val, HttpsPrefix))

\* the message of the ValueError raised for a rejected image_url
ImageUrlMessage(image_url) == IF ~Truthy(image_url) THEN MsgNoImageUrl ELSE IF StartsWith(image_url.val, ErrorSentinel) THEN image_url.val ELSE MsgInvalidImageUrl

ImageUrlSite(image_url) == IF ~Truthy(image_url) \/ StartsWith(image_url.val, ErrorSentinel) THEN "no_image_url" ELSE "invalid_image_url"

RECURSIVE ConvertResults_StopAtMalformed(_, _, _)
ConvertResults_StopAtMalformed(results, i, music_videos) == IF i > Len(results) THEN music_videos ELSE IF HasRequiredKeys(results[i]) THEN ConvertResults_StopAtMalformed(results, i + 1, Append(music_videos, MusicVideo(results[i]))) ELSE music_videos

\* for result in results: try: music_videos.append(MusicVideo(...)) except KeyError: continue
RECURSIVE ConvertResults(_, _, _)
ConvertResults(results, i, music_videos) == IF i > Len(results) THEN music_videos ELSE IF HasRequiredKeys(results[i]) THEN ConvertResults(results, i + 1, Append(music_videos, MusicVideo(results[i]))) ELSE ConvertResults(results, i + 1, music_videos)

-----------------------------------------------------------------------------
(* src/main.py: the dispatcher's rules and the endpoints' error wrapping *)

HasKeyword(prompt, keywords) == \E keyword \in keywords : Contains(Lower(prompt), keyword)

Route_MusicFirst(p) == IF p.prompt.kind = "str" /\ HasKeyword(p.prompt.val, MusicKeywords) THEN "music" ELSE IF Truthy(p.url) THEN "website" ELSE IF p.prompt.kind = "absent" THEN "none" ELSE IF p.prompt.kind = "null" THEN "attribute_error" ELSE IF HasKeyword(p.prompt.val, ImageKeywords) THEN "image" ELSE "none"

\* the if / elif chain of handle_agent_task; request["prompt"].lower() raises
\* AttributeError when the prompt is None
Route(p) == IF Truthy(p.url) THEN "website" ELSE IF p.prompt.kind = "absent" THEN "none" ELSE IF p.prompt.kind = "null" THEN "attribute_error" ELSE IF HasKeyword(p.prompt.val, MusicKeywords) THEN "music" ELSE IF HasKeyword(p.prompt.val, ImageKeywords) THEN "image" ELSE "none"

Direct == {"WebsiteAnalyzer.analyze", "MusicSearcher.analyze", "ImageGenerator.analyze"}

StatusText(status) == IF status = 400 THEN <<"4", "0", "0">> ELSE IF status = 422 THEN <<"4", "2", "2">> ELSE <<"5", "0", "0">>

\* str(e) of an HTTPException: "<status_code>: <detail>"
StrHTTPException(status, detail) == StatusText(status) \o <<":", " ">> \o detail

MsgSchema == <<"v", "a", "l", "i", "d", "a", "t", "i", "o", "n", " ", "e", "r", "r", "o", "r", " ", "f", "o", "r", " ", "W", "e", "b", "s", "i", "t", "e", "A", "n", "a", "l", "y", "s", "i", "s", "R", "e", "q", "u", "e", "s", "t">>

MsgAttributeError == <<"'", "N", "o", "n", "e", "T", "y", "p", "e", "'", " ", "o", "b", "j", "e", "c", "t", " ", "h", "a", "s", " ", "n", "o", " ", "a", "t", "t", "r", "i", "b", "u", "t", "e", " ", "'", "l", "o", "w", "e", "r", "'">>

\* an HTTPException(status, detail) raised in endpoint e: handle_agent_task's
\* `except Exception` catches it and raises HTTPException(500, str(e)) in its place
HTTPError(e, status, detail) == IF e = "handle_agent_task" THEN [status |-> 500, detail |-> StrHTTPException(status, detail), body |-> NoBody] ELSE [status |-> status, detail |-> detail, body |-> NoBody]

\* a ValueError(msg) raised by a task handler: to a direct caller it is the
\* exception (status 0), an endpoint turns it into HTTPException(500, msg)
HandlerError(e, msg) == IF e \in Direct THEN [status |-> 0, detail |-> msg, body |-> NoBody] ELSE HTTPError(e, 500, msg)

\* a handler's return value: the endpoints return it as the 200 response
Success(e, body) == [status |-> IF e \in Direct THEN 0 ELSE 200, detail |-> <<>>, body |-> body]

-----------------------------------------------------------------------------
(* The state of one request *)

NoRequest == [url |-> Absent, prompt |-> Absent, query |-> Absent]

NoLeaf == [code |-> <<>>, analysis |-> <<>>, results |-> [kind |-> "none", val |-> <<>>], image_url |-> Absent]

NoResponse == [status |-> 0, detail |-> <<>>, body |-> NoBody]

Call(name, args) == [leaf |-> name, args |-> args]

Init == /\ pc = "idle"
        /\ entry = "none"
        /\ payload = NoRequest
        /\ request = NoRequest
        /\ handler = "none"
        /\ youtube_api = "YouTubeSearchAPI"
        /\ calls = <<>>
        /\ leafFailed = FALSE
        /\ leaf = NoLeaf
        /\ raisedAt = "none"
        /\ response = NoResponse

\* a request arrives
Arrive(pc2, e, p, req, h, api, cs, site, resp) == /\ pc' = pc2
                                                  /\ entry' = e
                                                  /\ payload' = p
                                                  /\ request' = req
                                                  /\ handler' = h
                                                  /\ youtube_api' = api
                                                  /\ calls' = cs
                                                  /\ leafFailed' = FALSE
                                                  /\ leaf' = NoLeaf
                                                  /\ raisedAt' = site
                                                  /\ response' = resp

\* a leaf returned and the handler ran on to its next await (pc2) or to its end ("done")
Resume(pc2, cs, failed, lv, site, resp) == /\ pc' = pc2
                                           /\ calls' = cs
                                           /\ leafFailed' = (leafFailed \/ failed)
                                           /\ leaf' = lv
                                           /\ raisedAt' = site
                                           /\ response' = resp
                                           /\ UNCHANGED <<entry, payload, request, handler, youtube_api>>

-----------------------------------------------------------------------------
(* src/mcp/analyzers.py: the task handlers up to their first await *)

\* WebsiteAnalyzer.analyze, lines 23-33: validate the url, then await fetch
WebsiteAnalyzer_analyze(e, p, req) == IF WebsiteUrlInvalid(req.url) THEN Arrive("done", e, p, req, "WebsiteAnalyzer", "YouTubeSearchAPI", <<>>, "invalid_url", HandlerError(e, PrefixAnalysisFailed \o MsgInvalidUrl)) ELSE Arrive("fetch", e, p, req, "WebsiteAnalyzer", "YouTubeSearchAPI", <<Call("fetch", <<req.url.val>>)>>, "none", NoResponse)

\* MusicSearcher.analyze, lines 66-76: validate the query, then await search
MusicSearcher_analyze(e, p, req, api) == IF Blank(req.query) THEN Arrive("done", e, p, req, "MusicSearcher", api, <<>>, "empty_query", HandlerError(e, PrefixMusicFailed \o MsgEmptyQuery)) ELSE Arrive("search", e, p, req, "MusicSearcher", api, <<Call("search", <<req.query.val>>)>>, "none", NoResponse)

ImageGenerator_analyze_LengthCheckAfterCall(e, p, req) == IF Blank(req.prompt) THEN Arrive("done", e, p, req, "ImageGenerator", "YouTubeSearchAPI", <<>>, "empty_prompt", HandlerError(e, PrefixImageFailed \o MsgEmptyPrompt)) ELSE IF PromptTooLong(req.prompt) THEN Arrive("done", e, p, req, "ImageGenerator", "YouTubeSearchAPI", <<Call("generate", <<req.prompt.val>>)>>, "prompt_too_long", HandlerError(e, PrefixImageFailed \o MsgPromptTooLong)) ELSE Arrive("generate", e, p, req, "ImageGenerator", "YouTubeSearchAPI", <<Call("generate", <<req.prompt.val>>)>>, "none", NoResponse)

\* ImageGenerator.analyze, lines 122-135: validate the prompt, then await generate
ImageGenerator_analyze(e, p, req) == IF Blank(req.prompt) THEN Arrive("done", e, p, req, "ImageGenerator", "YouTubeSearchAPI", <<>>, "empty_prompt", HandlerError(e, PrefixImageFailed \o MsgEmptyPrompt)) ELSE IF PromptTooLong(req.prompt) THEN Arrive("done", e, p, req, "ImageGenerator", "YouTubeSearchAPI", <<>>, "prompt_too_long", HandlerError(e, PrefixImageFailed \o MsgPromptTooLong)) ELSE Arrive("generate", e, p, req, "ImageGenerator", "YouTubeSearchAPI", <<Call("generate", <<req.prompt.val>>)>>, "none", NoResponse)

\* a request body that violates the endpoint's model: validation_exception_handler answers 422
RequestValidationError(e, p) == Arrive("done", e, p, NoRequest, "none", "YouTubeSearchAPI", <<>>, "request_validation", [status |-> 422, detail |-> MsgInvalidRequestFormat, body |-> NoBody])

-----------------------------------------------------------------------------
(* src/main.py: the endpoints *)

\* POST /api/analyze
analyze_website == pc = "idle" /\ \E url \in UrlValues, prompt \in PromptValues : LET p == [url |-> url, prompt |-> prompt, query |-> Absent] IN IF WebsiteAnalysisRequestValid(p) THEN WebsiteAnalyzer_analyze("analyze_website", p, p) ELSE RequestValidationError("analyze_website", p)

\* POST /api/music/search
search_music == pc = "idle" /\ \E query \in PromptValues : LET p == [url |-> Absent, prompt |-> Absent, query |-> query] IN IF MusicSearchRequestValid(p) THEN MusicSearcher_analyze("search_music", p, p, "YouTubeSearchAPI") ELSE RequestValidationError("search_music", p)

\* POST /api/image/generate
generate_image == pc = "idle" /\ \E prompt \in ImagePromptValues : LET p == [url |-> Absent, prompt |-> prompt, query |-> Absent] IN IF ImageGenerationRequestValid(p) THEN ImageGenerator_analyze("generate_image", p, p) ELSE RequestValidationError("generate_image", p)

\* an exception other than HTTPException raised inside handle_agent_task's try:
\* caught by `except Exception`, answered 500 with str(e)
AgentException(p, site, msg) == Arrive("done", "handle_agent_task", p, NoRequest, "none", "YouTubeSearchAPI", <<>>, site, [status |-> 500, detail |-> msg, body |-> NoBody])

\* POST /agent-task
handle_agent_task == pc = "idle" /\ \E url \in UrlValues, prompt \in PromptValues : LET p == [url |-> url, prompt |-> prompt, query |-> Absent] IN LET rule == Route(p) IN
    IF rule = "website" THEN (IF WebsiteAnalysisRequestValid(p) THEN WebsiteAnalyzer_analyze("handle_agent_task", p, p) ELSE AgentException(p, "schema", MsgSchema))
    ELSE IF rule = "music" THEN MusicSearcher_analyze("handle_agent_task", p, [url |-> Absent, prompt |-> Absent, query |-> p.prompt], "YouTubeSearchAPI")
    ELSE IF rule = "image" THEN ImageGenerator_analyze("handle_agent_task", p, [url |-> Absent, prompt |-> p.prompt, query |-> Absent])
    ELSE IF rule = "attribute_error" THEN AgentException(p, "attribute_error", MsgAttributeError)
    ELSE Arrive("done", "handle_agent_task", p, NoRequest, "none", "YouTubeSearchAPI", <<>>, "no_rule", HTTPError("handle_agent_task", 400, MsgInvalidRequestType))

\* a task handler called on a request object as it is (no endpoint, no model validation)
call_WebsiteAnalyzer == pc = "idle" /\ \E url \in UrlValues \ {Absent}, prompt \in PromptValues \ {Absent} : LET p == [url |-> url, prompt |-> prompt, query |-> Absent] IN WebsiteAnalyzer_analyze("WebsiteAnalyzer.analyze", p, p)

\* MusicSearcher(youtube_api).analyze: with YouTubeSearchAPI or another YouTubeAPI
call_MusicSearcher == pc = "idle" /\ \E query \in PromptValues \ {Absent}, api \in {"YouTubeSearchAPI", "YouTubeAPI"} : LET p == [url |-> Absent, prompt |-> Absent, query |-> query] IN MusicSearcher_analyze("MusicSearcher.analyze", p, p, api)

call_ImageGenerator == pc = "idle" /\ \E prompt \in ImagePromptValues \ {Absent} : LET p == [url |-> Absent, prompt |-> prompt, query |-> Absent] IN ImageGenerator_analyze("ImageGenerator.analyze", p, p)

-----------------------------------------------------------------------------
(* src/mcp/analyzers.py: the task handlers after each await *)

fetch_returns_NoSentinelCheck == /\ pc = "fetch"
                                 /\ \E outcome \in FetchOutcomes : LET code == WebCodeFetcher_fetch(outcome) IN LET lv == [leaf EXCEPT !.code = code] IN
                                        IF Blank(request.prompt) THEN Resume("done", calls, ~outcome.ok, lv, "empty_prompt", HandlerError(entry, PrefixAnalysisFailed \o MsgEmptyPrompt))
                                        ELSE Resume("llm", Append(calls, Call("llm", <<Truncate(code), request.prompt.val>>)), ~outcome.ok, lv, "none", NoResponse)

\* WebsiteAnalyzer.analyze, lines 33-44: fetch returned
fetch_returns == /\ pc = "fetch"
                 /\ \E outcome \in FetchOutcomes : LET code == WebCodeFetcher_fetch(outcome) IN LET lv == [leaf EXCEPT !.code = code] IN
                        IF StartsWith(code, ErrorSentinel) THEN Resume("done", calls, ~outcome.ok, lv, "fetch_sentinel", HandlerError(entry, PrefixAnalysisFailed \o code))
                        ELSE IF Blank(request.prompt) THEN Resume("done", calls, ~outcome.ok, lv, "empty_prompt", HandlerError(entry, PrefixAnalysisFailed \o MsgEmptyPrompt))
                        ELSE Resume("llm", Append(calls, Call("llm", <<Truncate(code), request.prompt.val>>)), ~outcome.ok, lv, "none", NoResponse)

\* WebsiteAnalyzer.analyze, lines 44-54: the LLM leaf returned
llm_returns == /\ pc = "llm"
               /\ \E outcome \in LlmOutcomes : LET analysis == GeminiAnalyzer_analyze(outcome) IN LET lv == [leaf EXCEPT !.analysis = analysis] IN
                      IF StartsWith(analysis, ErrorSentinel) THEN Resume("done", calls, ~outcome.ok, lv, "llm_sentinel", HandlerError(entry, PrefixAnalysisFailed \o analysis))
                      ELSE Resume("done", calls, ~outcome.ok, lv, "none", Success(entry, WebsiteAnalysisResponse(request.url.val, request.prompt.val, analysis)))

MusicSearcher_results_EmptyIsError(results, lv, failed) == IF results.kind = "null" \/ results.val = <<>> THEN Resume("done", calls, failed, lv, "no_results", HandlerError(entry, PrefixMusicFailed \o <<"N", "o", " ", "r", "e", "s", "u", "l", "t", "s", " ", "f", "o", "u", "n", "d">>)) ELSE Resume("done", calls, failed, lv, "none", Success(entry, MusicSearchResponse(request.query.val, ConvertResults(results.val, 1, <<>>))))

\* MusicSearcher.analyze, lines 78-110: from the leaf's results to the response
MusicSearcher_results(results, lv, failed) == IF results.kind = "null" \/ results.val = <<>> THEN Resume("done", calls, failed, lv, "none", Success(entry, MusicSearchResponse(request.query.val, <<>>))) ELSE Resume("done", calls, failed, lv, "none", Success(entry, MusicSearchResponse(request.query.val, ConvertResults(results.val, 1, <<>>))))

\* MusicSearcher.analyze, line 76: YouTubeSearchAPI.search returned
search_returns == /\ pc = "search"
                  /\ youtube_api = "YouTubeSearchAPI"
                  /\ \E outcome \in SearchOutcomes : LET results == [kind |-> "list", val |-> YouTubeSearchAPI_search(outcome)] IN MusicSearcher_results(results, [leaf EXCEPT !.results = results], SearchFailed(outcome))

\* MusicSearcher.analyze, line 76: another YouTubeAPI returned or raised
\* (`except Exception`, lines 114-116)
protocol_search_returns == /\ pc = "search"
                           /\ youtube_api = "YouTubeAPI"
                           /\ \E outcome \in ProtocolSearchOutcomes : IF outcome.kind = "raise" THEN Resume("done", calls, TRUE, leaf, "leaf_raised", HandlerError(entry, PrefixMusicUnexpected \o ExcText)) ELSE MusicSearcher_results(outcome, [leaf EXCEPT !.results = outcome], FALSE)

\* ImageGenerator.analyze, lines 135-149: generate returned
generate_returns == /\ pc = "generate"
                    /\ \E outcome \in ImageOutcomes : LET image_url == DeepAIGenerator_generate(outcome) IN LET lv == [leaf EXCEPT !.image_url = image_url] IN
                           IF ImageUrlRejected(image_url) THEN Resume("done", calls, ~outcome.ok, lv, ImageUrlSite(image_url), HandlerError(entry, PrefixImageFailed \o ImageUrlMessage(image_url)))
                           ELSE Resume("done", calls, ~outcome.ok, lv, "none", Success(entry, ImageGenerationResponse(request.prompt.val, image_url.val)))

\* the response is sent and the request's state is dropped: nothing of it is
\* shared with the next request
respond == /\ pc = "done"
           /\ pc' = "idle"
           /\ entry' = "none"
           /\ payload' = NoRequest
           /\ request' = NoRequest
           /\ handler' = "none"
           /\ youtube_api' = "YouTubeSearchAPI"
           /\ calls' = <<>>
           /\ leafFailed' = FALSE
           /\ leaf' = NoLeaf
           /\ raisedAt' = "none"
           /\ response' = NoResponse

Next == \/ analyze_website
        \/ search_music
        \/ generate_image
        \/ handle_agent_task
        \/ call_WebsiteAnalyzer
        \/ call_MusicSearcher
        \/ call_ImageGenerator
        \/ fetch_returns
        \/ llm_returns
        \/ search_returns
        \/ protocol_search_returns
        \/ generate_returns
        \/ respond

Spec == Init /\ [][Next]_vars

-----------------------------------------------------------------------------
(* The properties *)

\* a body was returned to the caller (a 200 response, or analyze()'s return value)
Succeeded == response.body.task # ""

\* a str of whitespace only (the empty str included)
AllWhitespace(s) == \A i \in 1..Len(s) : s[i] \in Whitespace

HasHttpScheme(s) == StartsWith(s, HttpPrefix) \/ StartsWith(s, HttpsPrefix)

EndsWith(s, suffix) == Len(s) >= Len(suffix) /\ SubSeq(s, Len(s) - Len(suffix) + 1, Len(s)) = suffix

Called(name) == \E i \in 1..Len(calls) : calls[i].leaf = name

\* the raise statements that reject the request's own input
ValidationSites == {"invalid_url", "empty_prompt", "empty_query", "prompt_too_long"}

\* the payload matches no dispatch rule
NoRuleMatches(p) == ~Truthy(p.url) /\ (p.prompt.kind = "absent" \/ (p.prompt.kind = "str" /\ ~HasKeyword(p.prompt.val, MusicKeywords) /\ ~HasKeyword(p.prompt.val, ImageKeywords)))

\* C1: a payload of POST /agent-task that matches no dispatch rule is answered
\* with status 400 and the "valid request type" message, and neither a task
\* handler nor a leaf client is invoked.
C1_NoRuleAnswers400 == (pc = "done" /\ entry = "handle_agent_task" /\ NoRuleMatches(payload)) => (response.status = 400 /\ response.detail = MsgInvalidRequestType /\ handler = "none" /\ calls = <<>>)

\* the handler of the first rule the payload matches, in the order url, music, image
FirstMatchingHandler(p) == IF Truthy(p.url) THEN "WebsiteAnalyzer" ELSE IF p.prompt.kind = "str" /\ HasKeyword(p.prompt.val, MusicKeywords) THEN "MusicSearcher" ELSE IF p.prompt.kind = "str" /\ HasKeyword(p.prompt.val, ImageKeywords) THEN "ImageGenerator" ELSE "none"

\* C2 as stated: for every payload of the dispatcher that matches a rule, the
\* handler of the first matching rule (url, then music keywords, then image
\* keywords) is invoked, and music search gets the whole prompt as its query.
C2_FirstRuleHandlerInvoked == (entry = "handle_agent_task" /\ FirstMatchingHandler(payload) # "none") => (handler = FirstMatchingHandler(payload) /\ (handler = "MusicSearcher" => request.query = payload.prompt))

\* C2 as amended: the handler invoked by the dispatcher is never another one
\* than the first matching rule's; it is invoked whenever the payload matches a
\* rule and, for the url rule, is a valid WebsiteAnalysisRequest (an http/https
\* url with a host, a string prompt); music search gets the whole prompt as its
\* query; a payload whose url is present but empty is decided by its prompt.
C2_FirstRuleHandlerIfWellFormed == entry = "handle_agent_task" =>
    /\ handler \in {"none", FirstMatchingHandler(payload)}
    /\ (FirstMatchingHandler(payload) = "WebsiteAnalyzer" /\ WebsiteAnalysisRequestValid(payload)) => handler = "WebsiteAnalyzer"
    /\ FirstMatchingHandler(payload) \in {"MusicSearcher", "ImageGenerator"} => handler = FirstMatchingHandler(payload)
    /\ handler = "MusicSearcher" => request.query = payload.prompt
    /\ handler = "ImageGenerator" => request.prompt = payload.prompt

\* C2's case: a payload with a valid url and music keywords went to website analysis
C2_Witness == entry = "handle_agent_task" /\ Truthy(payload.url) /\ payload.prompt.kind = "str" /\ HasKeyword(payload.prompt.val, MusicKeywords) /\ handler = "WebsiteAnalyzer" /\ Called("fetch")

\* C3: when a leaf call of a request fails, the request ends in a failure and
\* never in a success response, and no leaf is invoked a second time.
C3_LeafFailureFailsRequest == /\ (pc = "done" /\ leafFailed) => ~Succeeded
                              /\ \A i, j \in 1..Len(calls) : calls[i].leaf = calls[j].leaf => i = j

\* C4 as stated: an execution that ends in a validation failure has invoked
\* no leaf client.
C4_ValidationBeforeAnyLeaf == raisedAt \in ValidationSites => calls = <<>>

\* C4 as amended: an execution that ends in a validation failure has invoked
\* no leaf client, except that WebsiteAnalyzer finds a blank prompt after the
\* fetch leaf has returned: then the fetch leaf alone was invoked, once, and
\* the LLM leaf never.
C4_ValidationBeforeLeafExceptWebsitePrompt == raisedAt \in ValidationSites => (pc = "done" /\ ~Succeeded /\ IF handler = "WebsiteAnalyzer" /\ raisedAt = "empty_prompt" THEN calls = <<Call("fetch", <<request.url.val>>)>> ELSE calls = <<>>)

\* C4's case: WebsiteAnalyzer rejected a blank prompt
C4_Witness == pc = "done" /\ handler = "WebsiteAnalyzer" /\ raisedAt = "empty_prompt" /\ request.prompt = Str(<<" ">>)

\* C5: for a url that is empty or starts with neither "http://" nor
\* "https://", WebsiteAnalyzer.analyze fails with the validation failure and
\* neither the fetch leaf nor the LLM leaf is invoked.
C5_BadUrlRejectedBeforeFetch == (handler = "WebsiteAnalyzer" /\ (request.url.kind # "str" \/ request.url.val = <<>> \/ ~HasHttpScheme(request.url.val))) => (pc = "done" /\ ~Succeeded /\ raisedAt = "invalid_url" /\ EndsWith(response.detail, PrefixAnalysisFailed \o MsgInvalidUrl) /\ calls = <<>>)

\* C5's case: WebsiteAnalyzer rejected a non-empty url of another scheme
C5_Witness == handler = "WebsiteAnalyzer" /\ request.url.kind = "str" /\ request.url.val # <<>> /\ ~HasHttpScheme(request.url.val) /\ raisedAt = "invalid_url"

\* C6: for a prompt that is blank or longer than 1000 characters,
\* ImageGenerator.analyze fails with a validation failure without invoking the
\* image leaf; a non-blank prompt of exactly 1000 characters reaches the leaf.
C6_ImagePromptLimits == handler = "ImageGenerator" =>
    /\ (request.prompt.kind # "str" \/ AllWhitespace(request.prompt.val) \/ Len(request.prompt.val) > 1000) => (pc = "done" /\ ~Succeeded /\ raisedAt \in {"empty_prompt", "prompt_too_long"} /\ calls = <<>>)
    /\ (request.prompt.kind = "str" /\ ~AllWhitespace(request.prompt.val) /\ Len(request.prompt.val) <= 1000) => (calls = <<Call("generate", <<request.prompt.val>>)>> /\ raisedAt \notin ValidationSites)

\* C6's case: a non-blank prompt of exactly 1000 characters reached the image leaf
C6_Witness == handler = "ImageGenerator" /\ Len(request.prompt.val) = 1000 /\ ~AllWhitespace(request.prompt.val) /\ Called("generate")

\* C7: a value of the image leaf that is empty, begins with "Error:" or has no
\* http/https scheme ends ImageGenerator.analyze in a failure; every
\* ImageGenerationResponse has an image_url with an http/https scheme that is
\* the leaf's value, and the request's prompt unchanged.
C7_ImageUrlChecked == /\ (handler = "ImageGenerator" /\ pc = "done" /\ Called("generate")) => IF leaf.image_url.kind # "str" \/ leaf.image_url.val = <<>> \/ StartsWith(leaf.image_url.val, ErrorSentinel) \/ ~HasHttpScheme(leaf.image_url.val) THEN ~Succeeded /\ raisedAt \in {"no_image_url", "invalid_image_url"} ELSE Succeeded
                      /\ response.body.task = "image_generation" => (HasHttpScheme(response.body.image_url) /\ Str(response.body.image_url) = leaf.image_url /\ handler = "ImageGenerator" /\ Str(response.body.prompt) = request.prompt /\ request.prompt = payload.prompt)

\* C7's case: the image leaf returned a url of another scheme and the request failed
C7_Witness == handler = "ImageGenerator" /\ pc = "done" /\ leaf.image_url.kind = "str" /\ leaf.image_url.val # <<>> /\ ~StartsWith(leaf.image_url.val, ErrorSentinel) /\ ~HasHttpScheme(leaf.image_url.val) /\ ~Succeeded

\* C8: an LLM leaf result that begins with "Error:" or is empty ends
\* WebsiteAnalyzer.analyze in a failure; every AnalysisResponse carries a
\* non-empty analysis_result without the "Error:" sentinel (the leaf's result).
C8_LlmResultChecked == /\ (handler = "WebsiteAnalyzer" /\ pc = "done" /\ Called("llm") /\ (leaf.analysis = <<>> \/ StartsWith(leaf.analysis, ErrorSentinel))) => (~Succeeded /\ raisedAt = "llm_sentinel" /\ EndsWith(response.detail, PrefixAnalysisFailed \o leaf.analysis))
                       /\ response.body.task = "website_analysis" => (handler = "WebsiteAnalyzer" /\ Called("llm") /\ response.body.analysis_result # <<>> /\ ~StartsWith(response.body.analysis_result, ErrorSentinel) /\ response.body.analysis_result = leaf.analysis)

\* C8's case: the LLM answered with an empty response and the request failed
C8_Witness == handler = "WebsiteAnalyzer" /\ pc = "done" /\ Called("llm") /\ leaf.analysis = GeminiErrorPrefix \o MsgEmptyGemini /\ ~Succeeded

\* C9: for a non-blank query, when the video-search leaf returns an empty or
\* absent list, MusicSearcher.analyze returns a MusicSearchResponse with task
\* "music_search", the query unchanged and an empty results list, not a failure.
C9_NoResultsIsSuccess == (handler = "MusicSearcher" /\ pc = "done" /\ Called("search") /\ (leaf.results.kind = "null" \/ (leaf.results.kind = "list" /\ leaf.results.val = <<>>))) => (raisedAt = "none" /\ response.status \in {0, 200} /\ response.body = MusicSearchResponse(request.query.val, <<>>) /\ response.body.task = "music_search" /\ ~AllWhitespace(request.query.val))

\* C9's case: the leaf returned None and the search succeeded with no results
C9_Witness == handler = "MusicSearcher" /\ pc = "done" /\ leaf.results.kind = "null" /\ Succeeded /\ response.body.results = <<>>

Complete(record) == \A k \in RequiredKeys : k \in DOMAIN record

\* C10: the results of MusicSearcher.analyze are exactly the leaf's records
\* that carry all six required keys, in the leaf's order, none duplicated or
\* reordered, and the request succeeds.
C10_CompleteRecordsInOrder == (handler = "MusicSearcher" /\ pc = "done" /\ leaf.results.kind = "list") => LET kept == SelectSeq(leaf.results.val, Complete) IN
    /\ Succeeded /\ raisedAt = "none"
    /\ Len(response.body.results) = Len(kept)
    /\ \A i \in 1..Len(kept) : \A k \in RequiredKeys : response.body.results[i][k] = kept[i][k]

\* C10's case: a record without `channel` between two complete records was
\* dropped and both its neighbours kept
C10_Witness == handler = "MusicSearcher" /\ pc = "done" /\ leaf.results.kind = "list" /\ Len(leaf.results.val) = 3 /\ Complete(leaf.results.val[1]) /\ "channel" \notin DOMAIN leaf.results.val[2] /\ Complete(leaf.results.val[3]) /\ leaf.results.val[1] # leaf.results.val[3] /\ Len(response.body.results) = 2

\* the body violates the request schema of the endpoint it was sent to; for
\* /agent-task: a payload routed to website analysis that is no valid
\* WebsiteAnalysisRequest, or a prompt that is not a string
SchemaViolation == \/ entry = "analyze_website" /\ ~WebsiteAnalysisRequestValid(payload)
                   \/ entry = "search_music" /\ ~MusicSearchRequestValid(payload)
                   \/ entry = "generate_image" /\ ~ImageGenerationRequestValid(payload)
                   \/ entry = "handle_agent_task" /\ Truthy(payload.url) /\ ~WebsiteAnalysisRequestValid(payload)
                   \/ entry = "handle_agent_task" /\ ~Truthy(payload.url) /\ payload.prompt.kind = "null"

\* C11: on every endpoint that takes a request body, /agent-task included, a
\* body that violates the request schema is answered with status 422 and
\* detail "Invalid request format", and no task handler is invoked.
C11_SchemaViolationAnswers422 == (pc = "done" /\ SchemaViolation) => (response.status = 422 /\ response.detail = MsgInvalidRequestFormat /\ handler = "none" /\ calls = <<>>)

\* the fixed task tag of each task handler
TaskTag(h) == IF h = "WebsiteAnalyzer" THEN "website_analysis" ELSE IF h = "MusicSearcher" THEN "music_search" ELSE IF h = "ImageGenerator" THEN "image_generation" ELSE ""

\* the task handler behind each endpoint; for /agent-task the first matching rule's
EndpointHandler == IF entry \in {"analyze_website", "WebsiteAnalyzer.analyze"} THEN "WebsiteAnalyzer" ELSE IF entry \in {"search_music", "MusicSearcher.analyze"} THEN "MusicSearcher" ELSE IF entry \in {"generate_image", "ImageGenerator.analyze"} THEN "ImageGenerator" ELSE IF entry = "handle_agent_task" THEN FirstMatchingHandler(payload) ELSE "none"

\* C12: every successful response carries the fixed task tag of the handler
\* that produced it, which is the handler of the endpoint invoked or of the
\* dispatcher's first matching rule: "website_analysis", "music_search"
\* (the empty-results response included) or "image_generation"; no handler
\* returns another handler's tag.
C12_TaskTagMatchesHandler == Succeeded => (pc = "done" /\ handler \in {"WebsiteAnalyzer", "MusicSearcher", "ImageGenerator"} /\ handler = EndpointHandler /\ response.body.task = TaskTag(handler))

\* C12's case: a music search reached through the dispatcher succeeded with no results
C12_Witness == pc = "done" /\ entry = "handle_agent_task" /\ handler = "MusicSearcher" /\ Succeeded /\ response.status = 200 /\ response.body.results = <<>> /\ response.body.task = "music_search"

\* the message of the failure analyze() ended in: the detail of the endpoint's
\* HTTPException, which handle_agent_task prefixes with "500: "
FailureMessage == IF entry = "handle_agent_task" THEN SubSeq(response.detail, Len(StatusText(500)) + 3, Len(response.detail)) ELSE response.detail

\* C13: WebsiteAnalyzer.analyze runs its steps in a fixed order and stops at
\* the first failure: the LLM leaf is invoked only after the fetch leaf has
\* returned a result without the "Error:" sentinel and the prompt was found
\* non-blank; when the fetch result begins with "Error:" the request fails
\* with a message that starts with "Analysis failed:" and carries the
\* sentinel text, and the LLM leaf is never invoked.
C13_WebsiteStepsInOrder == handler = "WebsiteAnalyzer" =>
    /\ pc = "fetch" => calls = <<Call("fetch", <<request.url.val>>)>>
    /\ Called("llm") => (pc \in {"llm", "done"} /\ calls = <<Call("fetch", <<request.url.val>>), Call("llm", <<Truncate(leaf.code), request.prompt.val>>)>> /\ ~StartsWith(leaf.code, ErrorSentinel) /\ request.prompt.kind = "str" /\ ~AllWhitespace(request.prompt.val))
    /\ (pc # "fetch" /\ Called("fetch") /\ StartsWith(leaf.code, ErrorSentinel)) => (pc = "done" /\ ~Succeeded /\ raisedAt = "fetch_sentinel" /\ ~Called("llm") /\ StartsWith(FailureMessage, <<"A", "n", "a", "l", "y", "s", "i", "s", " ", "f", "a", "i", "l", "e", "d", ":">>) /\ EndsWith(FailureMessage, leaf.code))
    /\ (pc = "done" /\ raisedAt # "none") => (~Succeeded /\ StartsWith(FailureMessage, <<"A", "n", "a", "l", "y", "s", "i", "s", " ", "f", "a", "i", "l", "e", "d", ":">>))

\* C13's case: the fetch failed, its sentinel ended the request and the LLM leaf was not invoked
C13_Witness == handler = "WebsiteAnalyzer" /\ pc = "done" /\ leafFailed /\ leaf.code = FetchErrorPrefix \o ExcText /\ raisedAt = "fetch_sentinel" /\ ~Called("llm") /\ entry = "handle_agent_task"

====
